---- MODULE Spec2Model ----
(***************************************************************************)
(* plain2html.core.message_processor: MessageProcessor adds an HTML        *)
(* component to a text/plain Email, or to the first component of a         *)
(* multipart Email.                                                        *)
(*                                                                         *)
(* Message objects live in a heap (a sequence of records, the index being  *)
(* the object's identity).  A string is the sequence of its code points.   *)
(* The email package is modelled with the behaviour of Python 3.           *)
(***************************************************************************)
EXTENDS Naturals, Sequences, FiniteSets

VARIABLES
    heap,        \* the Message objects, by identity
    msg,         \* the message the current call works on
    pc,          \* position of the current call
    new_msg,     \* local of _add_html_to_plain
    text_part,   \* local of both paths
    html_part,   \* local of both paths
    result,      \* the returned message (0: none)
    error,       \* the exception that left the call
    calls,       \* the html_parser invocations of the current call
    html_parser, \* self.html_parser
    allow_8bit,  \* self.allow_8bit
    entry,       \* the heap as it was when the current call began
    path,        \* the path the dispatch of the current call took
    done         \* the calls that ended so far: path and outcome

vars == <<heap, msg, pc, new_msg, text_part, html_part, result, error, calls,
          html_parser, allow_8bit, entry, path, done>>

\* ---------------------------------------------------------------- bounds

MaxLen == 2        \* characters of an input payload
MaxChildren == 2   \* children of an input container
MaxCalls == 2      \* calls in a row, each on the previous call's result

\* --------------------------------------------------------------- strings

Alphabet == {97, 233}          \* 'a' and e-acute

Texts == UNION {[1..n -> Alphabet] : n \in 0..MaxLen}

None == "none"                 \* an absent header, an absent parameter

\* str.encode('us-ascii') succeeds
IsAscii(s) == \A i \in 1..Len(s) : s[i] < 128

\* str.encode('utf-8'), for code points below 2048
RECURSIVE Utf8Encode(_)
Utf8Encode(s) ==
    IF s = <<>> THEN <<>>
    ELSE (IF s[1] < 128 THEN <<s[1]>>
          ELSE <<192 + (s[1] \div 64), 128 + (s[1] % 64)>>)
         \o Utf8Encode(Tail(s))

\* the base64 alphabet, as code points
B64Char(v) ==
    IF v < 26 THEN 65 + v
    ELSE IF v < 52 THEN 97 + (v - 26)
    ELSE IF v < 62 THEN 48 + (v - 52)
    ELSE IF v = 62 THEN 43 ELSE 47

B64Pad == 61
NL == 10

RECURSIVE B64Groups(_)
B64Groups(b) ==
    IF b = <<>> THEN <<>>
    ELSE IF Len(b) = 1 THEN
        <<B64Char(b[1] \div 4), B64Char((b[1] % 4) * 16), B64Pad, B64Pad>>
    ELSE IF Len(b) = 2 THEN
        <<B64Char(b[1] \div 4), B64Char((b[1] % 4) * 16 + (b[2] \div 16)),
          B64Char((b[2] % 16) * 4), B64Pad>>
    ELSE
        <<B64Char(b[1] \div 4), B64Char((b[1] % 4) * 16 + (b[2] \div 16)),
          B64Char((b[2] % 16) * 4 + (b[3] \div 64)), B64Char(b[3] % 64)>>
        \o B64Groups(SubSeq(b, 4, Len(b)))

\* Charset.body_encode for a base64 charset; lines are not wrapped below 57 bytes
body_encode(b) == IF b = <<>> THEN <<>> ELSE B64Groups(b) \o <<NL>>

\* -------------------------------------------------------------- messages

\* A Message: the Content-Type header (ct, charset), the
\* Content-Transfer-Encoding header, the Subject header, and the payload:
\* a string (text) or a list of Messages (kids).
Message(ct, charset, cte, subject, multi, text, kids) ==
    [ct |-> ct, charset |-> charset, cte |-> cte, subject |-> subject,
     multi |-> multi, text |-> text, kids |-> kids]

is_multipart(m) == m.multi

get_content_type(m) == IF m.ct = None THEN "text/plain" ELSE m.ct

get_content_charset(m) == m.charset

NoError == [kind |-> None, got |-> None]

MessageTypeError(got) == [kind |-> "MessageTypeError", got |-> got]

Raised(kind) == [kind |-> kind, got |-> None]

\* MIMEText(_text, _subtype, _charset): the part, or the exception; subtype
\* is given with its main type, "text/html" for 'html'
MIMEText(text, subtype, charset) ==
    LET cs == IF charset # None THEN charset
              ELSE IF IsAscii(text) THEN "us-ascii" ELSE "utf-8"
    IN  IF cs \notin {"us-ascii", "utf-8"}
        THEN [raised |-> "LookupError"]
        ELSE IF cs = "us-ascii" /\ ~IsAscii(text)
        THEN [raised |-> "UnicodeEncodeError"]
        ELSE [raised |-> None,
              part |-> Message(subtype, cs,
                               IF cs = "us-ascii" THEN "7bit" ELSE "base64",
                               None, FALSE,
                               IF cs = "us-ascii" THEN text
                               ELSE body_encode(Utf8Encode(text)),
                               <<>>)]

\* MIMEMultipart(_subtype), the subtype given with its main type
MIMEMultipart(subtype) ==
    Message(subtype, None, None, None, TRUE, <<>>, <<>>)

set_payload(m, text) == [m EXCEPT !.text = text]

\* Message.set_charset: the charset parameter; an existing
\* Content-Transfer-Encoding header and the payload stay
set_charset(m, charset) == [m EXCEPT !.charset = charset]

replace_header_cte(m, value) == [m EXCEPT !.cte = value]

attach(m, id) == [m EXCEPT !.kids = Append(@, id)]

\* message_utils.clone_header
clone_header(name, from, to) ==
    IF name = "Content-Type"
    THEN [to EXCEPT !.ct = from.ct, !.charset = from.charset]
    ELSE [to EXCEPT !.cte = from.cte]

\* message_utils.convert_text_to_alternative
convert_text_to_alternative(m) ==
    [MIMEMultipart("multipart/alternative") EXCEPT !.subject = m.subject]

\* ------------------------------------------------------- the html parser

Parsers == {"wrap", "accent", "strict"}

ParserRaises(p, text) == p = "strict" /\ ~IsAscii(text)

\* the html parser's result: "wrap" and "strict" put the text in a tag,
\* "accent" also typesets every 'a' as e-acute
Render(p, text) ==
    LET body == IF p = "accent"
                THEN [i \in 1..Len(text) |-> IF text[i] = 97 THEN 233 ELSE text[i]]
                ELSE text
    IN  <<60>> \o body \o <<62>>

\* ------------------------------------------------------ MessageProcessor

\* _create_plain_message(self, msg)
_create_plain_message(m) ==
    LET text_msg == MIMEText(<<>>, "text/plain", None).part
        with_payload == set_payload(text_msg, m.text)
        with_type == clone_header("Content-Type", m, with_payload)
    IN  clone_header("Content-Transfer-Encoding", m, with_type)

\* _create_html_message whose 8-bit branch leaves the payload empty
NoPayload_create_html_message(m) ==
    LET charset == get_content_charset(m)
        text == m.text
        html_str == Render(html_parser, text)
    IN  IF ParserRaises(html_parser, text)
        THEN [raised |-> "ParserError",
              handed |-> <<[text |-> text, returned |-> FALSE, html |-> <<>>]>>]
        ELSE LET handed == <<[text |-> text, returned |-> TRUE, html |-> html_str]>>
             IN  IF allow_8bit
                 THEN LET empty == MIMEText(<<>>, "text/html", None).part
                          with_charset == set_charset(empty, charset)
                      IN  [raised |-> None, handed |-> handed,
                           part |-> IF charset # "us-ascii"
                                    THEN replace_header_cte(with_charset, "8bit")
                                    ELSE with_charset]
                 ELSE LET made == MIMEText(html_str, "text/html", charset)
                      IN  IF made.raised # None
                          THEN [raised |-> made.raised, handed |-> handed]
                          ELSE [raised |-> None, handed |-> handed,
                                part |-> made.part]

\* _create_html_message(self, msg): what was handed to the html parser, and
\* the part or the exception
_create_html_message(m) ==
    LET charset == get_content_charset(m)
        text == m.text
        html_str == Render(html_parser, text)
    IN  IF ParserRaises(html_parser, text)
        THEN [raised |-> "ParserError",
              handed |-> <<[text |-> text, returned |-> FALSE, html |-> <<>>]>>]
        ELSE LET handed == <<[text |-> text, returned |-> TRUE, html |-> html_str]>>
             IN  IF allow_8bit
                 THEN LET empty == MIMEText(<<>>, "text/html", None).part
                          with_payload == set_payload(empty, html_str)
                          with_charset == set_charset(with_payload, charset)
                      IN  [raised |-> None, handed |-> handed,
                           part |-> IF charset # "us-ascii"
                                    THEN replace_header_cte(with_charset, "8bit")
                                    ELSE with_charset]
                 ELSE LET made == MIMEText(html_str, "text/html", charset)
                      IN  IF made.raised # None
                          THEN [raised |-> made.raised, handed |-> handed]
                          ELSE [raised |-> None, handed |-> handed,
                                part |-> made.part]

\* _add_html_to_plain_check reporting the type it expected
ReportsExpected_plain_check(m) ==
    IF is_multipart(m) \/ get_content_type(m) # "text/plain"
    THEN MessageTypeError("text/plain")
    ELSE NoError

\* the sanity check of _add_html_to_plain: the exception, or NoError
_add_html_to_plain_check(m) ==
    IF is_multipart(m) \/ get_content_type(m) # "text/plain"
    THEN MessageTypeError(get_content_type(m))
    ELSE NoError

\* the sanity checks of _add_html_to_multipart and the read of component 1:
\* the exception, or NoError
_add_html_to_multipart_check(h, m) ==
    IF ~is_multipart(m)
    THEN MessageTypeError(get_content_type(m))
    ELSE IF m.kids = <<>>
    THEN Raised("IndexError")
    ELSE IF get_content_type(h[m.kids[1]]) # "text/plain"
    THEN MessageTypeError(get_content_type(m))
    ELSE NoError

Outcome(p, o) == [path |-> p, outcome |-> o]

\* the call ends with an exception
Raise(e) ==
    /\ error' = e
    /\ pc' = "raised"
    /\ done' = Append(done, Outcome(path, e.kind))

\* the call returns r
Return(r) ==
    /\ result' = r
    /\ pc' = "returned"
    /\ done' = Append(done, Outcome(path, "returned"))

\* generate_html_msg_from_file: the dispatch on the loaded message
generate_html_msg_from_file ==
    /\ pc = "dispatch"
    /\ path' = IF is_multipart(heap[msg]) THEN "multipart" ELSE "plain"
    /\ pc' = IF is_multipart(heap[msg]) THEN "multipart_check" ELSE "plain_check"
    /\ UNCHANGED <<heap, msg, new_msg, text_part, html_part, result, error,
                   calls, html_parser, allow_8bit, entry, done>>

_add_html_to_plain_sanity ==
    /\ pc = "plain_check"
    /\ LET e == _add_html_to_plain_check(heap[msg])
       IN  IF e # NoError
           THEN Raise(e) /\ UNCHANGED result
           ELSE pc' = "plain_parts" /\ UNCHANGED <<error, done, result>>
    /\ UNCHANGED <<heap, msg, new_msg, text_part, html_part, calls,
                   html_parser, allow_8bit, entry, path>>

_add_html_to_plain_parts ==
    /\ pc = "plain_parts"
    /\ heap' = heap \o <<convert_text_to_alternative(heap[msg]),
                         _create_plain_message(heap[msg])>>
    /\ new_msg' = Len(heap) + 1
    /\ text_part' = Len(heap) + 2
    /\ pc' = "plain_html"
    /\ UNCHANGED <<msg, html_part, result, error, calls, html_parser,
                   allow_8bit, entry, path, done>>

_add_html_to_plain_html ==
    /\ pc = "plain_html"
    /\ LET made == _create_html_message(heap[msg])
       IN  /\ calls' = calls \o made.handed
           /\ IF made.raised # None
              THEN Raise(Raised(made.raised)) /\ UNCHANGED <<heap, html_part>>
              ELSE /\ heap' = Append(heap, made.part)
                   /\ html_part' = Len(heap) + 1
                   /\ pc' = "plain_attach"
                   /\ UNCHANGED <<error, done>>
    /\ UNCHANGED <<msg, new_msg, text_part, result, html_parser, allow_8bit,
                   entry, path>>

\* _add_html_to_plain_attach attaching the HTML part first
HtmlFirst_plain_attach ==
    /\ pc = "plain_attach"
    /\ heap' = [heap EXCEPT ![new_msg] = attach(attach(@, html_part), text_part)]
    /\ Return(new_msg)
    /\ UNCHANGED <<msg, new_msg, text_part, html_part, error, calls,
                   html_parser, allow_8bit, entry, path>>

_add_html_to_plain_attach ==
    /\ pc = "plain_attach"
    /\ heap' = [heap EXCEPT ![new_msg] = attach(attach(@, text_part), html_part)]
    /\ Return(new_msg)
    /\ UNCHANGED <<msg, new_msg, text_part, html_part, error, calls,
                   html_parser, allow_8bit, entry, path>>

\* _add_html_to_multipart_sanity rendering component 1 before it checks its type
RenderFirst_multipart_sanity ==
    /\ pc = "multipart_check"
    /\ LET m == heap[msg]
           e == _add_html_to_multipart_check(heap, m)
       IN  /\ calls' = IF is_multipart(m) /\ m.kids # <<>>
                        THEN calls \o _create_html_message(heap[m.kids[1]]).handed
                        ELSE calls
           /\ IF e # NoError
              THEN Raise(e) /\ UNCHANGED <<result, text_part>>
              ELSE /\ text_part' = m.kids[1]
                   /\ pc' = "multipart_html"
                   /\ UNCHANGED <<error, done, result>>
    /\ UNCHANGED <<heap, msg, new_msg, html_part, html_parser, allow_8bit,
                   entry, path>>

_add_html_to_multipart_sanity ==
    /\ pc = "multipart_check"
    /\ LET e == _add_html_to_multipart_check(heap, heap[msg])
       IN  IF e # NoError
           THEN Raise(e) /\ UNCHANGED <<result, text_part>>
           ELSE /\ text_part' = heap[msg].kids[1]
                /\ pc' = "multipart_html"
                /\ UNCHANGED <<error, done, result>>
    /\ UNCHANGED <<heap, msg, new_msg, html_part, calls, html_parser,
                   allow_8bit, entry, path>>

\* _add_html_to_multipart_html putting the alternative container in the
\* root's first slot before it renders
SlotFirst_multipart_html ==
    /\ pc = "multipart_html"
    /\ LET made == _create_html_message(heap[text_part])
           alt_msg == Len(heap) + 1
           early == [Append(heap, attach(MIMEMultipart("multipart/alternative"),
                                         text_part))
                        EXCEPT ![msg].kids[1] = alt_msg]
       IN  /\ calls' = calls \o made.handed
           /\ IF made.raised # None
              THEN Raise(Raised(made.raised)) /\ heap' = early
                   /\ UNCHANGED html_part
              ELSE /\ heap' = Append(early, made.part)
                   /\ html_part' = Len(early) + 1
                   /\ pc' = "multipart_attach"
                   /\ UNCHANGED <<error, done>>
    /\ UNCHANGED <<msg, new_msg, text_part, result, html_parser, allow_8bit,
                   entry, path>>

_add_html_to_multipart_html ==
    /\ pc = "multipart_html"
    /\ LET made == _create_html_message(heap[text_part])
       IN  /\ calls' = calls \o made.handed
           /\ IF made.raised # None
              THEN Raise(Raised(made.raised)) /\ UNCHANGED <<heap, html_part>>
              ELSE /\ heap' = Append(heap, made.part)
                   /\ html_part' = Len(heap) + 1
                   /\ pc' = "multipart_attach"
                   /\ UNCHANGED <<error, done>>
    /\ UNCHANGED <<msg, new_msg, text_part, result, html_parser, allow_8bit,
                   entry, path>>

\* _add_html_to_multipart_attach inserting the alternative container before
\* the first component instead of replacing it
Insert_multipart_attach ==
    /\ pc = "multipart_attach"
    /\ LET alt_msg == Len(heap) + 1
       IN  heap' = [Append(heap, attach(attach(MIMEMultipart("multipart/alternative"),
                                               text_part), html_part))
                       EXCEPT ![msg].kids = <<alt_msg>> \o @]
    /\ Return(msg)
    /\ UNCHANGED <<msg, new_msg, text_part, html_part, error, calls,
                   html_parser, allow_8bit, entry, path>>

_add_html_to_multipart_attach ==
    /\ pc = "multipart_attach"
    /\ LET alt_msg == Len(heap) + 1
       IN  heap' = [Append(heap, attach(attach(MIMEMultipart("multipart/alternative"),
                                               text_part), html_part))
                       EXCEPT ![msg].kids[1] = alt_msg]
    /\ Return(msg)
    /\ UNCHANGED <<msg, new_msg, text_part, html_part, error, calls,
                   html_parser, allow_8bit, entry, path>>

\* generate_html_msg_from_file on the message the last call returned
Reapply ==
    /\ pc = "returned"
    /\ Len(done) < MaxCalls
    /\ msg' = result
    /\ entry' = heap
    /\ pc' = "dispatch"
    /\ new_msg' = 0 /\ text_part' = 0 /\ html_part' = 0 /\ result' = 0
    /\ error' = NoError
    /\ calls' = <<>>
    /\ path' = None
    /\ UNCHANGED <<heap, html_parser, allow_8bit, done>>

\* ---------------------------------------------------------------- inputs

Charsets == {None, "us-ascii", "utf-8", "x-unknown"}

\* a leaf as email.message_from_file gives it
Leaves ==
    {Message(ct, cs, cte, None, FALSE, t, <<>>) :
        ct \in {None, "text/plain", "text/html"}, cs \in Charsets,
        cte \in {None, "8bit"}, t \in Texts}

\* the components after the first: an attachment, a second text
Others ==
    {Message("image/png", None, "base64", None, FALSE, <<97>>, <<>>),
     Message("text/plain", "utf-8", "8bit", None, FALSE, <<233>>, <<>>)}

\* a message that declares a multipart type and has no boundary, or no
\* component, is parsed as a leaf
NoBoundary ==
    {Message("multipart/mixed", None, None, None, FALSE, t, <<>>) : t \in Texts}

Subjected(m) == [m EXCEPT !.subject = "s"]

\* the heaps a loaded message makes: the root is object 1, its components
\* follow in order; a parsed container has at least one component (a
\* multipart message in which no component is found is a leaf, NoBoundary)
Inputs ==
    {<<Subjected(l)>> : l \in Leaves \cup NoBoundary}
    \cup UNION {
           {<<Subjected(Message(ct, None, None, None, TRUE, <<>>,
                                [i \in 1..(1 + Len(rest)) |-> i + 1])), first>>
              \o rest :
              ct \in {"multipart/mixed", "multipart/alternative"},
              first \in Leaves,
              rest \in [1..n -> Others]} : n \in 0..(MaxChildren - 1)}

Init ==
    /\ heap \in Inputs
    /\ msg = 1
    /\ pc = "dispatch"
    /\ new_msg = 0 /\ text_part = 0 /\ html_part = 0 /\ result = 0
    /\ error = NoError
    /\ calls = <<>>
    /\ html_parser \in Parsers
    /\ allow_8bit \in BOOLEAN
    /\ entry = heap
    /\ path = None
    /\ done = <<>>

Next ==
    \/ generate_html_msg_from_file
    \/ _add_html_to_plain_sanity
    \/ _add_html_to_plain_parts
    \/ _add_html_to_plain_html
    \/ _add_html_to_plain_attach
    \/ _add_html_to_multipart_sanity
    \/ _add_html_to_multipart_html
    \/ _add_html_to_multipart_attach
    \/ Reapply

Spec == Init /\ [][Next]_vars

\* ---------------------------------------------------------------- claims

\* what get_payload(decode=True) and bytes.decode('utf-8') undo
B64Value(c) == CHOOSE v \in 0..63 : B64Char(v) = c

RECURSIVE B64Bytes(_)
B64Bytes(c) ==
    IF Len(c) < 4 THEN <<>>
    ELSE LET v1 == B64Value(c[1])
             v2 == B64Value(c[2])
         IN  (IF c[3] = B64Pad THEN <<v1 * 4 + (v2 \div 16)>>
              ELSE IF c[4] = B64Pad
              THEN <<v1 * 4 + (v2 \div 16),
                     (v2 % 16) * 16 + (B64Value(c[3]) \div 4)>>
              ELSE <<v1 * 4 + (v2 \div 16),
                     (v2 % 16) * 16 + (B64Value(c[3]) \div 4),
                     (B64Value(c[3]) % 4) * 64 + B64Value(c[4])>>)
             \o B64Bytes(SubSeq(c, 5, Len(c)))

RECURSIVE Utf8Decode(_)
Utf8Decode(b) ==
    IF b = <<>> THEN <<>>
    ELSE IF b[1] < 128 THEN <<b[1]>> \o Utf8Decode(Tail(b))
    ELSE <<(b[1] - 192) * 64 + (b[2] - 128)>> \o Utf8Decode(Tail(Tail(b)))

\* the text a leaf carries, its transfer encoding undone
Content(m) ==
    IF m.cte = "base64" THEN Utf8Decode(B64Bytes(m.text)) ELSE m.text

Finished == pc \in {"returned", "raised"}

\* the input of the current call
Input == entry[msg]

IsPlainLeaf(m) == ~is_multipart(m) /\ get_content_type(m) = "text/plain"

HasPlainFirst(m) ==
    /\ is_multipart(m)
    /\ m.kids # <<>>
    /\ get_content_type(entry[m.kids[1]]) = "text/plain"

\* the original text part of the current call, as it was at the call
SourcePart == IF is_multipart(Input) THEN entry[Input.kids[1]] ELSE Input

\* every object of the input is as it was when the call began
InputUnchanged == \A id \in 1..Len(entry) : heap[id] = entry[id]

\* C1: a call on a text/plain leaf is never refused, and what it returns is a
\* new multipart/alternative container of exactly two children: first a
\* text/plain leaf with the payload, Content-Type and
\* Content-Transfer-Encoding of the input, second a text/html leaf.
C1_PlainAlternative ==
    (Finished /\ IsPlainLeaf(Input)) =>
        /\ error.kind # "MessageTypeError"
        /\ pc = "returned" =>
            LET r == heap[result]
            IN  /\ result > Len(entry)
                /\ is_multipart(r)
                /\ get_content_type(r) = "multipart/alternative"
                /\ Len(r.kids) = 2
                /\ LET t == heap[r.kids[1]]
                       h == heap[r.kids[2]]
                   IN  /\ ~is_multipart(t)
                       /\ get_content_type(t) = "text/plain"
                       /\ t.text = Input.text
                       /\ t.ct = Input.ct
                       /\ t.charset = Input.charset
                       /\ t.cte = Input.cte
                       /\ ~is_multipart(h)
                       /\ get_content_type(h) = "text/html"

C1_Witness ==
    /\ pc = "returned"
    /\ Len(done) = 1
    /\ IsPlainLeaf(Input)
    /\ Input.charset = "utf-8"
    /\ Input.cte = "8bit"
    /\ Input.text = <<97, 233>>

\* C2: a call on a container whose first child is text/plain returns the
\* same root with as many children as before; child 0 is a new
\* multipart/alternative container of the original first child (the same
\* object, untouched) and a new text/html leaf; every later child is the same
\* object at the same index; nothing else of the root or of any input object
\* has changed.
C2_MultipartFrame ==
    (pc = "returned" /\ HasPlainFirst(Input)) =>
        LET root == heap[msg]
            alt == heap[root.kids[1]]
        IN  /\ result = msg
            /\ Len(root.kids) = Len(Input.kids)
            /\ [root EXCEPT !.kids = Input.kids] = Input
            /\ root.kids[1] > Len(entry)
            /\ is_multipart(alt)
            /\ get_content_type(alt) = "multipart/alternative"
            /\ Len(alt.kids) = 2
            /\ alt.kids[1] = Input.kids[1]
            /\ alt.kids[2] > Len(entry)
            /\ ~is_multipart(heap[alt.kids[2]])
            /\ get_content_type(heap[alt.kids[2]]) = "text/html"
            /\ \A i \in 2..Len(Input.kids) : root.kids[i] = Input.kids[i]
            /\ \A id \in 1..Len(entry) : id # msg => heap[id] = entry[id]

C2_Witness ==
    /\ pc = "returned"
    /\ Len(done) = 1
    /\ HasPlainFirst(Input)
    /\ Len(Input.kids) = 2
    /\ get_content_type(entry[Input.kids[2]]) = "text/plain"

\* C3: when the first child of a container is not text/plain the call raises
\* MessageTypeError carrying the first child's content type.
C3_ReportsFirstChild ==
    (Finished /\ is_multipart(Input) /\ Input.kids # <<>>
              /\ get_content_type(entry[Input.kids[1]]) # "text/plain") =>
        error = MessageTypeError(get_content_type(entry[Input.kids[1]]))

\* C4: every call on a message an earlier call returned raises
\* MessageTypeError.
C4_SecondCallRaises ==
    \A i \in 2..Len(done) : done[i].outcome = "MessageTypeError"

\* C5: until a call returns, and so whenever it fails, every object of its
\* input is exactly as it was when the call began.
C5_FailureLeavesInput ==
    pc # "returned" => InputUnchanged

C5_Witness ==
    /\ pc = "raised"
    /\ path = "multipart"
    /\ error.kind = "ParserError"
    /\ Len(Input.kids) = 2

\* C6: in 8-bit mode the HTML part's Content-Transfer-Encoding is "8bit" if
\* and only if the part's resulting charset, us-ascii when none is declared,
\* is not us-ascii; otherwise it is what the construction set, "7bit".
C6_EightBitIffNotAscii ==
    (pc = "returned" /\ allow_8bit) =>
        LET h == heap[html_part]
            resulting == IF get_content_charset(h) = None THEN "us-ascii"
                         ELSE get_content_charset(h)
        IN  h.cte = IF resulting # "us-ascii" THEN "8bit" ELSE "7bit"

\* C7: a call on a leaf whose content type is not text/plain raises
\* MessageTypeError carrying that leaf's content type, and returns nothing.
C7_LeafNotPlain ==
    (Finished /\ ~is_multipart(Input) /\ get_content_type(Input) # "text/plain") =>
        /\ pc = "raised"
        /\ error = MessageTypeError(get_content_type(Input))
        /\ result = 0
        /\ calls = <<>>

C7_Witness ==
    /\ pc = "raised"
    /\ ~is_multipart(Input)
    /\ get_content_type(Input) = "text/html"

\* C8: whatever is handed to the html parser is the payload of the original
\* text part, and the content of the HTML part of a returned message is what
\* the parser returned for it.
C8_RendersSourcePayload ==
    /\ \A i \in 1..Len(calls) : calls[i].text = SourcePart.text
    /\ pc = "returned" =>
        /\ calls = <<[text |-> SourcePart.text, returned |-> TRUE,
                      html |-> Render(html_parser, SourcePart.text)]>>
        /\ Content(heap[html_part]) = calls[1].html

C8_Witness ==
    /\ pc = "returned"
    /\ path = "multipart"
    /\ Len(Input.kids) = 2
    /\ get_content_type(entry[Input.kids[2]]) = "text/plain"
    /\ heap[html_part].cte = "base64"
    /\ SourcePart.text = <<233, 97>>

\* C9: a call in which the html parser did not fail returns or raises
\* MessageTypeError, and fails with nothing else.
C9_OnlyMessageTypeError ==
    (pc = "raised" /\ error.kind # "ParserError") =>
        error.kind = "MessageTypeError"

\* C10: the html parser is not invoked before the sanity checks have passed,
\* it has been invoked exactly once when a call returns, and not at all when
\* a call raises MessageTypeError.
C10_ChecksBeforeRendering ==
    /\ pc \in {"dispatch", "plain_check", "multipart_check"} => calls = <<>>
    /\ pc = "returned" => Len(calls) = 1
    /\ (pc = "raised" /\ error.kind = "MessageTypeError") => calls = <<>>

C10_Witness ==
    /\ Len(done) = 2
    /\ done[1].outcome = "returned"
    /\ done[2].outcome = "MessageTypeError"
    /\ calls = <<>>

====
